---------------------------- MODULE Spec2Model ----------------------------
(***************************************************************************)
(* Model of skill_extractor.py: the skill normalization, deduplication,    *)
(* categorization and matching pipeline, and the script run that drives    *)
(* it for one JD and a batch of resumes.                                   *)
(*                                                                         *)
(* Python strings are TLA+ strings; the operators below take them apart    *)
(* with Len, SubSeq and \o, one character at a time.                       *)
(***************************************************************************)
EXTENDS Integers, Sequences, FiniteSets, TLC

VARIABLES
    \* a run of the pure functions on one token
    tok,          \* the argument
    once,         \* normalize_token(tok)
    twice,        \* normalize_token(normalize_token(tok))
    cat,          \* categorize_skill(tok)
    tpc,          \* where the run stands
    \* one call of process_resume_file
    doc,          \* the file at `path`
    api_key,      \* its second argument
    text,         \* the extracted text
    attempt,      \* call_gemini_for_skills: the loop variable
    calls,        \* call_gemini_for_skills: generate_content calls made so far
    resp,         \* call_gemini_for_skills: the response it got, if any
    skills_raw,   \* what call_gemini_for_skills returned, then the candidates
    profile,      \* the value returned
    fpc,          \* where the call stands
    \* one run of the script
    start,        \* the Start button was pressed in this run
    jd_file,      \* the uploaded JD, or NoFile
    resume_files, \* the uploaded resumes
    jd_out,       \* the JD's profile, or None
    jd_skills,    \* set(jd_out["all_skills"])
    results,      \* the dict name -> profile or error, in insertion order
    bound,        \* the names among jd_out, jd_skills, results assigned so far
    nxt,          \* the resume the processing loop is at
    rows,         \* the rows rendered so far
    pc            \* where the script stands

tokenVars == <<tok, once, twice, cat, tpc>>

callVars ==
    <<doc, api_key, text, attempt, calls, resp, skills_raw, profile, fpc>>

runVars ==
    <<start, jd_file, resume_files, jd_out, jd_skills, results, bound, nxt, rows, pc>>

vars == <<tokenVars, callVars, runVars>>

-----------------------------------------------------------------------------
(* Characters *)

WHITESPACE == {" ", "\t", "\n"}

DIGITS == {"0", "1", "2", "3", "4", "5", "6", "7", "8", "9"}

LOWERCASE == "abcdefghijklmnopqrstuvwxyz"

UPPERCASE == "ABCDEFGHIJKLMNOPQRSTUVWXYZ"

\* The characters of the model in code-point order (what sorted() compares).
CODE_POINTS == "\t\n #+,-./0123456789" \o UPPERCASE \o "\\_" \o LOWERCASE

CharAt(s, i) == SubSeq(s, i, i)

From(s, i) == SubSeq(s, i, Len(s))

CharSet(s) == {CharAt(s, i) : i \in 1..Len(s)}

LETTERS == CharSet(LOWERCASE) \cup CharSet(UPPERCASE)

\* \w of the re module, on the characters of the model
WORD_CHARS == LETTERS \cup DIGITS \cup {"_"}

Ord(c) == CHOOSE i \in 1..Len(CODE_POINTS) : CharAt(CODE_POINTS, i) = c

LowerChar(c) ==
    IF c \in CharSet(UPPERCASE)
    THEN CharAt(LOWERCASE, CHOOSE i \in 1..26 : CharAt(UPPERCASE, i) = c)
    ELSE c

-----------------------------------------------------------------------------
(* str methods and the regular expressions the code uses.  Each operator   *)
(* recurses once per match (or halves the string), not once per character. *)

Min(S) == CHOOSE x \in S : \A y \in S : x <= y

\* s.lower(), one half of s after the other
RECURSIVE Lower(_)
Lower(s) ==
    IF Len(s) = 0 THEN ""
    ELSE IF Len(s) = 1 THEN LowerChar(s)
    ELSE Lower(SubSeq(s, 1, Len(s) \div 2)) \o Lower(From(s, Len(s) \div 2 + 1))

\* The indices of s that hold a character outside cls
Outside(s, cls) == {i \in 1..Len(s) : CharAt(s, i) \notin cls}

\* The indices of s that hold a character of cls
Inside(s, cls) == {i \in 1..Len(s) : CharAt(s, i) \in cls}

\* s without its longest prefix of characters of cls
Skip(s, cls) ==
    IF Outside(s, cls) = {} THEN "" ELSE From(s, Min(Outside(s, cls)))

\* s.strip()
Strip(s) ==
    LET keep == Outside(s, WHITESPACE)
    IN  IF keep = {} THEN ""
        ELSE SubSeq(s, Min(keep), CHOOSE j \in keep : \A k \in keep : k <= j)

\* re.sub('[cls]+', rep, s)
RECURSIVE SubRuns(_, _, _)
SubRuns(s, cls, rep) ==
    IF Inside(s, cls) = {} THEN s
    ELSE LET i == Min(Inside(s, cls))
         IN  SubSeq(s, 1, i - 1) \o rep \o SubRuns(Skip(From(s, i), cls), cls, rep)

CollapseWhitespace(s) == SubRuns(s, WHITESPACE, " ")

SLASHES == {"/", "\\"}

\* re.sub(r'\s*[\/\\]+\s*', ' / ', s): a match starts at the whitespace run
\* that leads to the first slash and ends after the whitespace that follows
\* the slashes.
RECURSIVE SubSlashes(_)
SubSlashes(s) ==
    IF Inside(s, SLASHES) = {} THEN s
    ELSE LET j == Min(Inside(s, SLASHES))
             before == {i \in 1..j : \A k \in i..(j - 1) : CharAt(s, k) \in WHITESPACE}
             rest == Skip(Skip(From(s, j), SLASHES), WHITESPACE)
         IN  SubSeq(s, 1, Min(before) - 1) \o " / " \o SubSlashes(rest)

\* Where k occurs in s
Occurrences(s, k) ==
    {i \in 1..(Len(s) - Len(k) + 1) : SubSeq(s, i, i + Len(k) - 1) = k}

\* k in s
Contains(s, k) == Occurrences(s, k) # {}

\* s.replace(k, v), k not empty: the occurrences from the left, none
\* overlapping the one before it
RECURSIVE Replace(_, _, _)
Replace(s, k, v) ==
    IF ~Contains(s, k) THEN s
    ELSE LET i == Min(Occurrences(s, k))
         IN  SubSeq(s, 1, i - 1) \o v \o Replace(From(s, i + Len(k)), k, v)

\* The periods of s with no digit before and none after
LonePeriods(s) ==
    {i \in 1..Len(s) :
        /\ CharAt(s, i) = "."
        /\ ~(i > 1 /\ CharAt(s, i - 1) \in DIGITS)
        /\ ~(i < Len(s) /\ CharAt(s, i + 1) \in DIGITS)}

\* re.sub(r'(?<!\d)\.(?!\d)', ' ', s); a period is no digit, so what follows
\* a replaced period is judged as at the start of a string
RECURSIVE SubLonePeriods(_)
SubLonePeriods(s) ==
    IF LonePeriods(s) = {} THEN s
    ELSE LET i == Min(LonePeriods(s))
         IN  SubSeq(s, 1, i - 1) \o " " \o SubLonePeriods(From(s, i + 1))

\* \b between s[i-1] and s[i]
WordBoundary(s, i) ==
    (i > 1 /\ i - 1 <= Len(s) /\ CharAt(s, i - 1) \in WORD_CHARS)
        # (i <= Len(s) /\ CharAt(s, i) \in WORD_CHARS)

\* Where a match of r'\busb\s+3\s+0\b' that starts at s[i] ends (the index
\* after it), or 0.
UsbMatchEnd(s, i) ==
    LET a == From(s, i + 3)
        b == Skip(a, WHITESPACE)
        c == From(b, 2)
        d == Skip(c, WHITESPACE)
        e == Len(s) - Len(d) + 2
    IN  IF /\ WordBoundary(s, i)
           /\ i + 2 <= Len(s) /\ SubSeq(s, i, i + 2) = "usb"
           /\ Len(b) < Len(a) /\ b # "" /\ CharAt(b, 1) = "3"
           /\ Len(d) < Len(c) /\ d # "" /\ CharAt(d, 1) = "0"
           /\ WordBoundary(s, e)
        THEN e
        ELSE 0

\* re.sub(r'\busb\s+3\s+0\b', 'usb 3.0', s), from s[i] on
RECURSIVE SubUsb(_, _)
SubUsb(s, i) ==
    LET starts == {j \in i..Len(s) : UsbMatchEnd(s, j) > 0}
    IN  IF starts = {} THEN From(s, i)
        ELSE SubSeq(s, i, Min(starts) - 1) \o "usb 3.0"
                 \o SubUsb(s, UsbMatchEnd(s, Min(starts)))

\* re.search(r'\b' + re.escape(kw) + r'\b', s)
Search(s, kw) ==
    \E i \in Occurrences(s, kw) :
        WordBoundary(s, i) /\ WordBoundary(s, i + Len(kw))

\* a < b as Python compares two strings: by the first character that differs
StrLess(a, b) ==
    LET n == IF Len(a) < Len(b) THEN Len(a) ELSE Len(b)
        differ == {i \in 1..n : CharAt(a, i) # CharAt(b, i)}
    IN  IF differ = {} THEN Len(a) < Len(b)
        ELSE Ord(CharAt(a, Min(differ))) < Ord(CharAt(b, Min(differ)))

\* list(S) left as it comes, here from the greatest down
RECURSIVE Sorted_Unsorted(_)
Sorted_Unsorted(S) ==
    IF S = {} THEN <<>>
    ELSE LET m == CHOOSE x \in S : \A y \in S : y = x \/ StrLess(y, x)
         IN  <<m>> \o Sorted_Unsorted(S \ {m})

\* sorted(list(S)) of a set of strings
RECURSIVE Sorted(_)
Sorted(S) ==
    IF S = {} THEN <<>>
    ELSE LET m == CHOOSE x \in S : \A y \in S : y = x \/ StrLess(x, y)
         IN  <<m>> \o Sorted(S \ {m})

-----------------------------------------------------------------------------
(* Keyword list, normalization, categorization *)

BASE_KEYWORDS ==
    << "c", "c++", "c#", "python", "java", "javascript", "typescript", "go",
       "rust", "ruby", "php", "scala", "kotlin", "swift", "r", "react",
       "angular", "vue", "next.js", "svelte", "html", "css", "sass", "tailwind",
       "node.js", "express", "django", "flask", "spring boot", "spring", "laravel", "asp.net",
       "sql", "postgresql", "mysql", "mongodb", "redis", "oracle", "mssql", "cassandra",
       "aws", "azure", "gcp", "docker", "kubernetes", "terraform", "ansible", "helm",
       "jenkins", "github actions", "gitlab-ci", "circleci", "pandas", "numpy", "scikit-learn", "tensorflow",
       "pytorch", "xgboost", "lightgbm", "nlp", "opencv", "spacy", "spark", "hadoop",
       "etl", "airflow", "embedded linux", "yocto", "petalinux", "u-boot", "device tree", "kernel",
       "linux kernel", "bsp", "arm", "raspberry pi", "stm32", "nxp", "imx", "qualcomm",
       "i2c", "spi", "uart", "gpio", "pcie", "usb", "ethernet", "can",
       "i2s", "board bring-up", "firmware", "bootloader", "driver development", "kernel drivers", "device drivers", "git",
       "gdb", "cmake", "make", "gcc", "clang", "vivado", "quartus", "jtag",
       "linux", "bash", "shell", "systemd", "sysvinit", "excel", "tableau", "power bi",
       "docker-compose" >>

NORMALIZE_MAP ==
    << <<"react.js", "react">>,
       <<"reactjs", "react">>,
       <<"nodejs", "node.js">>,
       <<"node js", "node.js">>,
       <<"powerbi", "power bi">>,
       <<"u boot", "u-boot">>,
       <<"u_boot", "u-boot">>,
       <<"device-tree", "device tree">>,
       <<"embedded c", "c">>,
       <<"c plus plus", "c++">>,
       <<"cplusplus", "c++">>,
       <<"usb 3 0", "usb 3.0">>,
       <<"usb3.0", "usb 3.0">>,
       <<"wi fi", "wi-fi">>,
       <<"wi-fi", "wi-fi">>,
       <<"i 2 c", "i2c">>,
       <<"i 2 s", "i2s">>,
       <<"yocto project", "yocto">>,
       <<"petalinux sdk", "petalinux">>,
       <<"system verilog", "systemverilog">>,
       <<"devops", "devops">>,
       <<"microcontrollers", "microcontroller">> >>

LANGUAGES ==
    { "c", "c++", "c#", "python", "java", "javascript", "typescript", "go",
      "rust", "ruby", "php", "scala", "kotlin", "swift", "r" }

TOOLS ==
    { "git", "gdb", "cmake", "make", "gcc", "clang", "vivado", "quartus",
      "jtag", "docker", "helm", "ansible" }

PROTOCOLS ==
    { "i2c", "spi", "uart", "gpio", "pcie", "usb", "ethernet", "can",
      "i2s", "wi-fi", "wifi", "lte", "bluetooth" }

PLATFORMS ==
    { "embedded linux", "yocto", "petalinux", "u-boot", "raspberry pi", "stm32", "arm", "nxp",
      "imx", "xilinx zynq", "xilinx rfsoc", "xilinx mpsoc" }

DRIVERS ==
    { "kernel drivers", "device drivers", "driver development", "bootloader", "board bring-up", "bsp", "firmware", "kernel",
      "linux kernel" }

OTHER_HINTS ==
    { "linux", "bash", "shell", "systemd", "sysvinit", "excel", "tableau", "power bi",
      "etl", "spark", "hadoop" }

\* for k, v in map.items(): if s == k or k in s: s = s.replace(k, v), from
\* entry i on.  An entry whose key s does not contain leaves s as it is, so
\* the loop goes on at the first entry whose key s contains.
RECURSIVE ApplyMap(_, _, _)
ApplyMap(s, map, i) ==
    LET hits == {j \in i..Len(map) : Contains(s, map[j][1])}
    IN  IF hits = {} THEN s
        ELSE ApplyMap(Replace(s, map[Min(hits)][1], map[Min(hits)][2]),
                      map, Min(hits) + 1)

Rewrite(s) == ApplyMap(s, NORMALIZE_MAP, 1)

\* The exact-match overrides that end normalize_token
Overrides(s) ==
    LET n == IF s = "node" THEN "node.js" ELSE s
    IN  IF n = "reactjs" THEN "react" ELSE n

normalize_token(t) ==
    IF t = "" THEN t
    ELSE LET s1 == Lower(Strip(t))
             s2 == SubRuns(s1, {"_", "\t"}, " ")
             s3 == SubSlashes(s2)
             s4 == Replace(s3, ",", " ")
             s5 == CollapseWhitespace(s4)
             s6 == Rewrite(s5)
             s7 == SubLonePeriods(s6)
             s8 == Strip(s7)
             s9 == SubUsb(s8, 1)
             s10 == CollapseWhitespace(s9)
         IN  Overrides(s10)

RECURSIVE Dedupe(_, _)
Dedupe(items, seen) ==
    IF items = <<>> THEN <<>>
    ELSE IF Head(items) \in seen THEN Dedupe(Tail(items), seen)
    ELSE <<Head(items)>> \o Dedupe(Tail(items), seen \cup {Head(items)})

\* dedupe_preserve_order that drops nothing
dedupe_preserve_order_KeepAll(items) == items

dedupe_preserve_order(items) == Dedupe(items, {})

CATEGORIES == {"languages", "tools", "protocols", "platforms", "drivers", "other"}

AnyIn(low, ks) == \E k \in ks : Contains(low, k)

\* categorize_skill with the substring heuristics tried before the lookup
\* sets
categorize_skill_SubstringsFirst(skill) ==
    LET low == Lower(skill)
    IN  IF AnyIn(low, {"driver", "kernel", "bootloader", "bsp",
                       "board bring-up", "firmware"}) THEN "drivers"
        ELSE IF AnyIn(low, {"linux", "embedded", "yocto", "petalinux",
                            "u-boot"}) THEN "platforms"
        ELSE IF low \in LANGUAGES THEN "languages"
        ELSE IF low \in TOOLS THEN "tools"
        ELSE IF low \in PROTOCOLS THEN "protocols"
        ELSE IF low \in PLATFORMS THEN "platforms"
        ELSE IF low \in DRIVERS THEN "drivers"
        ELSE IF low \in OTHER_HINTS THEN "other"
        ELSE "other"

categorize_skill(skill) ==
    LET low == Lower(skill)
    IN  IF low \in LANGUAGES THEN "languages"
        ELSE IF low \in TOOLS THEN "tools"
        ELSE IF low \in PROTOCOLS THEN "protocols"
        ELSE IF low \in PLATFORMS THEN "platforms"
        ELSE IF low \in DRIVERS THEN "drivers"
        ELSE IF low \in OTHER_HINTS THEN "other"
        ELSE IF AnyIn(low, {"driver", "kernel", "bootloader", "bsp",
                            "board bring-up", "firmware"}) THEN "drivers"
        ELSE IF AnyIn(low, {"linux", "embedded", "yocto", "petalinux",
                            "u-boot"}) THEN "platforms"
        ELSE IF AnyIn(low, {"aws", "azure", "gcp", "docker", "kubernetes",
                            "terraform", "ansible"}) THEN "tools"
        ELSE IF AnyIn(low, {"i2c", "spi", "uart", "gpio", "usb", "ethernet",
                            "can", "i2s", "bluetooth", "wi-fi"}) THEN "protocols"
        ELSE IF AnyIn(low, {"python", "java", "c++", "c#", "javascript",
                            "typescript", "go", "rust"}) THEN "languages"
        ELSE "other"

-----------------------------------------------------------------------------
(* Python values *)

\* None
None == [none |-> TRUE]

\* A list, where None may stand instead
List(items) == [list |-> items]

\* An item of a list the external source returned: a str, or something else
Str(s) == [str |-> s]

NotAStr == [int |-> 42]

IsStr(x) == "str" \in DOMAIN x

\* What a call that raised leaves to its caller's except clause
Raised(msg) == [raised |-> msg]

HasRaised(r) == "raised" \in DOMAIN r

-----------------------------------------------------------------------------
(* Text extraction *)

EndsWith(s, suffix) ==
    Len(s) >= Len(suffix) /\ From(s, Len(s) - Len(suffix) + 1) = suffix

extract_text(d) ==
    LET p == Lower(d.name)
    IN  IF EndsWith(p, ".pdf") \/ EndsWith(p, ".docx") \/ EndsWith(p, ".txt")
        THEN IF d.corrupt THEN Raised("extraction failed") ELSE [text |-> d.text]
        ELSE Raised("Unsupported file type. Supported: .pdf, .docx, .txt")

-----------------------------------------------------------------------------
(* The external source *)

max_retries == 2

\* for attempt in range(max_retries + 1)
InRange(a) == a <= max_retries

\* The retry test without its bound
RetryAllowed_Always(a) == TRUE

\* except Exception: if attempt < max_retries: ... continue
RetryAllowed(a) == a < max_retries

\* A response of generate_content, given by what the two parse strategies
\* find in it:
\*   json   "nomatch" (no {...} in it), "invalid" (json.loads raises),
\*          "notlist" (obj["skills"] is no list) or "list"
\*   skills obj.get("skills", []) when json = "list"
\*   items  the quoted strings of the first [...] of the text (none when the
\*          text has no [...])
Response(json, skills, items) == [json |-> json, skills |-> skills, items |-> items]

\* The body of the try of call_gemini_for_skills after generate_content
\* returned r: the value returned
ParseResponse(r) ==
    IF r.json = "list" THEN List(r.skills)
    ELSE IF r.items # <<>> THEN List(r.items)
    ELSE None

-----------------------------------------------------------------------------
(* process_resume_file after the external call *)

\* for kw in BASE_KEYWORDS: if re.search(...): found.append(kw)
KeywordScan(t) ==
    LET text_low == Lower(t)
        Found(kw) == Search(text_low, kw)
    IN  SelectSeq(BASE_KEYWORDS, Found)

\* The loop that fills `normalized`: the str items, normalized, empties dropped
NormalizeAll(items) ==
    LET strs == SelectSeq(items, IsStr)
        toks == [i \in 1..Len(strs) |-> normalize_token(strs[i].str)]
        NotEmpty(t) == t # ""
    IN  SelectSeq(toks, NotEmpty)

\* The body of the loop that fills `final`
SecondPass(s) == Strip(CollapseWhitespace(Rewrite(Strip(s))))

EmptyCategories == [c \in CATEGORIES |-> <<>>]

\* for s in arr: ret[categorize_skill(s)].append(s)
RECURSIVE Bucket(_, _)
Bucket(arr, ret) ==
    IF arr = <<>> THEN ret
    ELSE Bucket(Tail(arr),
                [ret EXCEPT ![categorize_skill(Head(arr))] = Append(@, Head(arr))])

categorize_list(arr) == Bucket(arr, EmptyCategories)

\* if skills_raw is None: ... skills_raw = found
Candidates(t, raw) ==
    IF raw = None
    THEN LET found == KeywordScan(t) IN [i \in 1..Len(found) |-> Str(found[i])]
    ELSE raw.list

\* process_resume_file from `normalized = []` on
ProfileOf(candidates) ==
    LET normalized == dedupe_preserve_order(NormalizeAll(candidates))
        final == dedupe_preserve_order(
                     [i \in 1..Len(normalized) |-> SecondPass(normalized[i])])
    IN  [all_skills |-> final, categories |-> categorize_list(final)]

\* process_resume_file from `if skills_raw is None` on
BuildProfile(t, raw) == ProfileOf(Candidates(t, raw))

\* process_resume_file(path, api_key), the external call having returned raw
process_resume_file(d, raw) ==
    IF HasRaised(extract_text(d)) THEN extract_text(d)
    ELSE BuildProfile(extract_text(d).text, raw)

-----------------------------------------------------------------------------
(* Inputs *)

MaxLen == 3

MaxItems == 2

MaxResumes == 2

\* Every string of at most n characters of `alphabet`
RECURSIVE StringsUpTo(_, _)
StringsUpTo(alphabet, n) ==
    IF n = 0 THEN {""}
    ELSE LET shorter == StringsUpTo(alphabet, n - 1)
         IN  shorter \cup {s \o c : s \in shorter, c \in alphabet}

\* Every list of at most n items of `pool`
RECURSIVE ListsUpTo(_, _)
ListsUpTo(pool, n) ==
    IF n = 0 THEN {<<>>}
    ELSE LET shorter == ListsUpTo(pool, n - 1)
         IN  shorter \cup {Append(l, x) : l \in shorter, x \in pool}

TokenAlphabet == {"c", "R", ".", "3", " ", "_", "/"}

\* Raw tokens a source may hand to normalize_token
NamedTokens ==
    { "React.JS", "node js", "PowerBI", "u_boot", "I 2 C", "USB3.0",
      "node", "nodejs", "node.js", "Node.JS", "reactjs", "react.js",
      "u.boot", "U-Boot", "usb 3 0", "usb  3\t0", "USB 3.0", "python3.x",
      "v1.", "wi fi", "embedded c", "C++", "next.js", "device-tree",
      "C, C++", "TCP/IP", " Yocto Project ", "...", "\t" }

\* Skills a profile may hold
NamedSkills ==
    { "python", "docker", "i2c", "yocto", "bootloader", "excel",
      "linux", "linux kernel", "embedded linux", "react", "power bi",
      "kernel hacking", "embedded systems", "docker-compose", "usb 3.0",
      "golang", "device tree", "linux device drivers", "Python", "aws lambda",
      "spring boot", "" }

Tokens == StringsUpTo(TokenAlphabet, MaxLen) \cup NamedTokens \cup NamedSkills

-----------------------------------------------------------------------------
(* A run of the pure functions on one token *)

TokenIdle ==
    /\ tok = "" /\ once = "" /\ twice = "" /\ cat = "" /\ tpc = "idle"

TokenInit ==
    /\ tok \in Tokens
    /\ once = "" /\ twice = "" /\ cat = ""
    /\ tpc = "raw"

Normalize ==
    /\ tpc = "raw"
    /\ once' = normalize_token(tok)
    /\ tpc' = "once"
    /\ UNCHANGED <<tok, twice, cat, callVars, runVars>>

Renormalize ==
    /\ tpc = "once"
    /\ twice' = normalize_token(once)
    /\ tpc' = "twice"
    /\ UNCHANGED <<tok, once, cat, callVars, runVars>>

Categorize ==
    /\ tpc = "raw"
    /\ cat' = categorize_skill(tok)
    /\ tpc' = "categorized"
    /\ UNCHANGED <<tok, once, twice, callVars, runVars>>

-----------------------------------------------------------------------------
(* One call of process_resume_file, the external call a step at a time *)

E2E_TEXT == "Experienced in Python, React.js and I2C on embedded Linux with U_Boot."

\* A file: its name, the text in it, whether reading it fails (a corrupt
\* file, a missing pdfplumber or python-docx), and what the external source
\* answers for its text when the script run asks it (None: unavailable).
File(name, t, corrupt, reply) ==
    [name |-> name, text |-> t, corrupt |-> corrupt, reply |-> reply]

CallFiles ==
    { File("e2e.txt", E2E_TEXT, FALSE, None),
      File("web.docx", "Node.js, next.js and C++ on the Linux kernel", FALSE, None),
      File("none.txt", "Nothing relevant", FALSE, None),
      File("scan.pdf", "", TRUE, None),
      File("cv.rtf", "Python", FALSE, None) }

\* Items the external source may return
ItemPool ==
    { Str("python"), Str(" Python"), Str("React.JS"), Str("node js"),
      Str("linux kernel"), Str(""), Str("  "), NotAStr }

\* Responses neither parse strategy turns into a list
Malformed ==
    { Response("nomatch", <<>>, <<>>),
      Response("invalid", <<>>, <<>>),
      Response("notlist", <<>>, <<>>) }

Responses ==
    Malformed
    \cup {Response("list", l, <<>>) : l \in ListsUpTo(ItemPool, MaxItems)}
    \cup {Response(j, <<>>, l) :
            j \in {"nomatch", "invalid", "notlist"},
            l \in ListsUpTo({Str("python"), Str("u_boot")}, MaxItems) \ {<<>>}}

CallIdle ==
    /\ doc = None /\ api_key = "" /\ text = None /\ attempt = 0 /\ calls = 0
    /\ resp = None /\ skills_raw = None /\ profile = None /\ fpc = "idle"

CallInit ==
    /\ doc \in CallFiles
    /\ api_key \in {"", "key"}
    /\ text = None /\ attempt = 0 /\ calls = 0
    /\ resp = None /\ skills_raw = None /\ profile = None
    /\ fpc = "start"

\* text = extract_text(path), and call_gemini_for_skills up to its loop:
\* without a key or a client it returns None at once
Extract ==
    /\ fpc = "start"
    /\ IF HasRaised(extract_text(doc))
       THEN /\ profile' = extract_text(doc)
            /\ fpc' = "raised"
            /\ UNCHANGED text
       ELSE /\ text' = extract_text(doc).text
            /\ \E client \in BOOLEAN :
                 fpc' = IF api_key # "" /\ client THEN "attempt" ELSE "build"
            /\ UNCHANGED profile
    /\ UNCHANGED <<doc, api_key, attempt, calls, resp, skills_raw, tokenVars, runVars>>

\* One pass of the loop: generate_content returns r and the pass returns
AttemptReturns ==
    /\ fpc = "attempt"
    /\ resp' \in Responses
    /\ skills_raw' = ParseResponse(resp')
    /\ calls' = calls + 1
    /\ fpc' = "build"
    /\ UNCHANGED <<doc, api_key, text, attempt, profile, tokenVars, runVars>>

\* One pass of the loop: generate_content raises.  The loop goes on while
\* range(max_retries + 1) lasts; were it to run out, the function would
\* return a bare None and the caller's unpacking of it would raise.
AttemptRaises ==
    /\ fpc = "attempt"
    /\ calls' = calls + 1
    /\ IF RetryAllowed(attempt)
       THEN /\ attempt' = attempt + 1
            /\ IF InRange(attempt + 1)
               THEN fpc' = "attempt" /\ UNCHANGED profile
               ELSE fpc' = "raised" /\ profile' = Raised("cannot unpack None")
       ELSE /\ fpc' = "build"
            /\ UNCHANGED <<attempt, profile>>
    /\ UNCHANGED <<doc, api_key, text, resp, skills_raw, tokenVars, runVars>>

\* process_resume_file from `if skills_raw is None` to its return
Build ==
    /\ fpc = "build"
    /\ skills_raw' = List(Candidates(text, skills_raw))
    /\ profile' = ProfileOf(skills_raw'.list)
    /\ fpc' = "done"
    /\ UNCHANGED <<doc, api_key, text, attempt, calls, resp, tokenVars, runVars>>

-----------------------------------------------------------------------------
(* One run of the script *)

NoFile == None

RunFiles ==
    { File("a.txt", "Python, Docker and I2C", FALSE, None),
      File("b.pdf", "", TRUE, None),
      File("b.pdf", "python on embedded Linux", FALSE,
           List(<<Str("Python"), Str("U_Boot"), Str("yocto")>>)),
      File("c.docx", "Nothing relevant", FALSE, List(<<>>)) }

\* call_gemini_for_skills(text, api_key) as the run sees it: the value
\* returned for the text of d
call_gemini_for_skills(d, key) == IF key = "" THEN None ELSE d.reply

\* set(seq)
Set(seq) == {seq[i] : i \in 1..Len(seq)}

\* results[name] = out: a dict keeps a key where it was first inserted
DictSet(dict, name, out) ==
    IF \E i \in 1..Len(dict) : dict[i].name = name
    THEN [i \in 1..Len(dict) |->
             IF dict[i].name = name THEN [name |-> name, out |-> out] ELSE dict[i]]
    ELSE Append(dict, [name |-> name, out |-> out])

\* matched = sorted(list(resume_skills & jd_skills)) if jd_skills
\*           else sorted(list(resume_skills))
Matched(resume_skills, jd) ==
    IF jd # {} THEN Sorted(resume_skills \cap jd) ELSE Sorted(resume_skills)

\* missing without the difference: every JD skill
Missing_AllOfJd(resume_skills, jd) == IF jd # {} THEN Sorted(jd) ELSE <<>>

\* missing = sorted(list(jd_skills - resume_skills)) if jd_skills else []
Missing(resume_skills, jd) ==
    IF jd # {} THEN Sorted(jd \ resume_skills) ELSE <<>>

\* What the loop over results.items() shows for one entry
Row(name, out, jd) ==
    IF "error" \in DOMAIN out
    THEN [name |-> name, error |-> out.error]
    ELSE LET resume_skills == Set(out.all_skills)
         IN  [name |-> name,
              resume_skills |-> resume_skills,
              matched |-> Matched(resume_skills, jd),
              missing |-> Missing(resume_skills, jd),
              matched_cat |-> categorize_list(Matched(resume_skills, jd)),
              missing_cat |-> categorize_list(Missing(resume_skills, jd))]

RunIdle ==
    /\ start = FALSE /\ jd_file = NoFile /\ resume_files = <<>>
    /\ jd_out = None /\ jd_skills = {} /\ results = <<>> /\ bound = {}
    /\ nxt = 0 /\ rows = <<>> /\ pc = "idle"

RunInit ==
    /\ start \in BOOLEAN
    /\ jd_file \in {NoFile} \cup RunFiles
    /\ resume_files \in ListsUpTo(RunFiles, MaxResumes)
    /\ api_key \in {"", "key"}
    /\ jd_out = None /\ jd_skills = {} /\ results = <<>> /\ bound = {}
    /\ nxt = 0 /\ rows = <<>>
    /\ pc = "top"

\* if start: ... elif ...: the warnings, or on to the processing
Validate ==
    /\ pc = "top"
    /\ pc' = IF start /\ jd_file # NoFile /\ resume_files # <<>>
             THEN "jd" ELSE "display"
    /\ UNCHANGED <<start, jd_file, resume_files, jd_out, jd_skills, results,
                   bound, nxt, rows, tokenVars, callVars>>

\* try: jd_out = process_resume_file(...)  except Exception: jd_out = None
JdOut(r) == IF HasRaised(r) THEN None ELSE r

\* try: results[f.name] = out  except Exception as e: ... {"error": str(e)}
ResultEntry(r) == IF HasRaised(r) THEN [error |-> r.raised] ELSE r

\* The JD: process_resume_file in its try, jd_skills, and results = {}
ProcessJD ==
    /\ pc = "jd"
    /\ jd_out' = JdOut(process_resume_file(
                        jd_file, call_gemini_for_skills(jd_file, api_key)))
    /\ jd_skills' = IF jd_out' # None THEN Set(jd_out'.all_skills) ELSE {}
    /\ results' = <<>>
    /\ bound' = bound \cup {"jd_out", "jd_skills", "results"}
    /\ nxt' = 1
    /\ pc' = "resumes"
    /\ UNCHANGED <<start, jd_file, resume_files, rows, tokenVars, callVars>>

\* One pass of `for f in resume_files`
ProcessResume ==
    /\ pc = "resumes"
    /\ results' =
           DictSet(results, resume_files[nxt].name,
                   ResultEntry(process_resume_file(
                       resume_files[nxt],
                       call_gemini_for_skills(resume_files[nxt], api_key))))
    /\ IF nxt < Len(resume_files)
       THEN nxt' = nxt + 1 /\ pc' = "resumes"
       ELSE nxt' = 0 /\ pc' = "display"
    /\ UNCHANGED <<start, jd_file, resume_files, jd_out, jd_skills, bound,
                   rows, tokenVars, callVars>>

\* The header row, and `for fname, out in results.items()` reads results
Display ==
    /\ pc = "display"
    /\ IF "results" \notin bound THEN pc' = "NameError" /\ nxt' = nxt
       ELSE IF results = <<>> THEN pc' = "end" /\ nxt' = nxt
       ELSE pc' = "rows" /\ nxt' = 1
    /\ UNCHANGED <<start, jd_file, resume_files, jd_out, jd_skills, results,
                   bound, rows, tokenVars, callVars>>

\* One pass of `for fname, out in results.items()`
RenderRow ==
    /\ pc = "rows"
    /\ rows' = Append(rows, Row(results[nxt].name, results[nxt].out, jd_skills))
    /\ IF nxt < Len(results)
       THEN nxt' = nxt + 1 /\ pc' = "rows"
       ELSE nxt' = 0 /\ pc' = "end"
    /\ UNCHANGED <<start, jd_file, resume_files, jd_out, jd_skills, results,
                   bound, tokenVars, callVars>>

-----------------------------------------------------------------------------
(* Specifications *)

\* One run of the script
Init == TokenIdle /\ RunInit
            /\ doc = None /\ text = None /\ attempt = 0 /\ calls = 0 /\ resp = None
            /\ skills_raw = None /\ profile = None /\ fpc = "idle"

Next == Validate \/ ProcessJD \/ ProcessResume \/ Display \/ RenderRow

Spec == Init /\ [][Next]_vars

\* The pure functions on one token
InitTokens == TokenInit /\ CallIdle /\ RunIdle

NextTokens == Normalize \/ Renormalize \/ Categorize

SpecTokens == InitTokens /\ [][NextTokens]_vars

\* One call of process_resume_file
InitCall == TokenIdle /\ CallInit /\ RunIdle

NextCall == Extract \/ AttemptReturns \/ AttemptRaises \/ Build

SpecCall == InitCall /\ [][NextCall]_vars

-----------------------------------------------------------------------------
(* Claims about normalize_token and categorize_skill, under SpecTokens *)

\* C1: normalize_token is idempotent: normalizing a normalized token gives
\* the token back, for every raw string.
C1_Idempotent == tpc = "twice" => twice = once

\* A token the final override turns into "node.js", normalized twice
C1_NodeNormalizedTwice == tpc = "twice" /\ tok = "node" /\ once = "node.js"

\* C2: normalize_token gives the documented canonical forms of "React.JS",
\* "node js", "PowerBI", "u_boot", "I 2 C" and "USB3.0".
C2_TableCases ==
    tpc = "once" =>
        /\ (tok = "React.JS" => once = "react")
        /\ (tok = "node js" => once = "node.js")
        /\ (tok = "PowerBI" => once = "power bi")
        /\ (tok = "u_boot" => once = "u-boot")
        /\ (tok = "I 2 C" => once = "i2c")
        /\ (tok = "USB3.0" => once = "usb 3.0")

\* The five of the six documented cases that normalize_token gets right
C2_OtherCasesHold ==
    tpc = "once" =>
        /\ (tok = "React.JS" => once = "react")
        /\ (tok = "PowerBI" => once = "power bi")
        /\ (tok = "u_boot" => once = "u-boot")
        /\ (tok = "I 2 C" => once = "i2c")
        /\ (tok = "USB3.0" => once = "usb 3.0")

\* The periods of s that do not stand between two digits
UnsandwichedPeriods(s) ==
    {i \in 1..Len(s) :
        /\ CharAt(s, i) = "."
        /\ ~(/\ i > 1 /\ CharAt(s, i - 1) \in DIGITS
             /\ i < Len(s) /\ CharAt(s, i + 1) \in DIGITS)}

\* C9: every non-empty string normalize_token returns is lower-case, has no
\* whitespace at its ends and no run of two whitespace characters, contains
\* no rewrite-table pattern whose canonical form differs from it, and no
\* period other than one with a digit on both sides.
C9_NormalizedSkill ==
    tpc = "once" /\ once # "" =>
        /\ CharSet(once) \cap CharSet(UPPERCASE) = {}
        /\ CharAt(once, 1) \notin WHITESPACE
        /\ CharAt(once, Len(once)) \notin WHITESPACE
        /\ \A i \in 1..(Len(once) - 1) :
              ~(CharAt(once, i) \in WHITESPACE /\ CharAt(once, i + 1) \in WHITESPACE)
        /\ \A e \in 1..Len(NORMALIZE_MAP) :
              NORMALIZE_MAP[e][1] # NORMALIZE_MAP[e][2]
                  => ~Contains(once, NORMALIZE_MAP[e][1])
        /\ UnsandwichedPeriods(once) = {}

\* The part of C9 that holds of every token: case and whitespace
C9_CaseAndWhitespace ==
    tpc = "once" /\ once # "" =>
        /\ CharSet(once) \cap CharSet(UPPERCASE) = {}
        /\ CharAt(once, 1) \notin WHITESPACE
        /\ CharAt(once, Len(once)) \notin WHITESPACE
        /\ \A i \in 1..(Len(once) - 1) :
              ~(CharAt(once, i) \in WHITESPACE /\ CharAt(once, i + 1) \in WHITESPACE)

\* The substring groups of the fallback, in the order they are tried
FallbackGroups ==
    << <<{"driver", "kernel", "bootloader", "bsp", "board bring-up", "firmware"},
         "drivers">>,
       <<{"linux", "embedded", "yocto", "petalinux", "u-boot"}, "platforms">>,
       <<{"aws", "azure", "gcp", "docker", "kubernetes", "terraform", "ansible"},
         "tools">>,
       <<{"i2c", "spi", "uart", "gpio", "usb", "ethernet", "can", "i2s",
          "bluetooth", "wi-fi"}, "protocols">>,
       <<{"python", "java", "c++", "c#", "javascript", "typescript", "go", "rust"},
         "languages">> >>

\* The lookup sets, in the order they are tried
LookupSets ==
    << <<LANGUAGES, "languages">>, <<TOOLS, "tools">>, <<PROTOCOLS, "protocols">>,
       <<PLATFORMS, "platforms">>, <<DRIVERS, "drivers">>, <<OTHER_HINTS, "other">> >>

\* C8: categorize_skill is total and first-match-wins: an exact member of a
\* lookup set gets the category of the first set that holds it, whatever
\* substrings it contains; otherwise the first fallback substring group that
\* matches decides; otherwise the result is other.  Membership and
\* containment are those of the lower-cased skill.
C8_FirstMatchWins ==
    tpc = "categorized" =>
        LET low == Lower(tok)
            exact == {g \in 1..Len(LookupSets) : low \in LookupSets[g][1]}
            fallback == {g \in 1..Len(FallbackGroups) :
                            \E k \in FallbackGroups[g][1] : Contains(low, k)}
        IN  /\ cat \in CATEGORIES
            /\ exact # {} => cat = LookupSets[Min(exact)][2]
            /\ exact = {} /\ fallback # {} => cat = FallbackGroups[Min(fallback)][2]
            /\ exact = {} /\ fallback = {} => cat = "other"
            /\ (tok = "linux" => cat = "other")
            /\ (tok = "linux kernel" => cat = "drivers")
            /\ (tok = "embedded linux" => cat = "platforms")
            /\ (tok = "python" => cat = "languages")
            /\ (tok = "docker" => cat = "tools")
            /\ (tok = "i2c" => cat = "protocols")
            /\ (tok = "yocto" => cat = "platforms")
            /\ (tok = "bootloader" => cat = "drivers")
            /\ (tok = "excel" => cat = "other")

\* An exact member of a lookup set that also contains a fallback substring
\* of another category has been categorized
C8_ExactBeatsSubstring ==
    /\ tpc = "categorized" /\ tok = "linux" /\ cat = "other"
    /\ Contains(tok, "linux")

-----------------------------------------------------------------------------
(* Claims about process_resume_file, under SpecCall *)

\* C5: with the keyword scan (no external source), the profile of
\* "Experienced in Python, React.js and I2C on embedded Linux with U_Boot."
\* holds python, react, i2c, embedded linux and u-boot, in the categories
\* languages, languages, protocols, platforms and platforms, and holds
\* neither react.js nor u_boot.
C5_EndToEnd ==
    fpc = "done" /\ text = E2E_TEXT /\ api_key = "" =>
        /\ \A e \in { <<"python", "languages">>, <<"react", "languages">>,
                      <<"i2c", "protocols">>, <<"embedded linux", "platforms">>,
                      <<"u-boot", "platforms">> } :
              /\ e[1] \in Set(profile.all_skills)
              /\ e[1] \in Set(profile.categories[e[2]])
        /\ "react.js" \notin Set(profile.all_skills)
        /\ "u_boot" \notin Set(profile.all_skills)

\* What the keyword scan does make of that text
C5_ScanOfTheText ==
    fpc = "done" /\ text = E2E_TEXT /\ api_key = "" =>
        /\ profile.all_skills = <<"python", "react", "embedded linux", "i2c", "linux">>
        /\ profile.categories["languages"] = <<"python">>
        /\ profile.categories["other"] = <<"react", "linux">>

\* The keywords of BASE_KEYWORDS that stand in t as words
KeywordsIn(t) == {kw \in Set(BASE_KEYWORDS) : Search(Lower(t), kw)}

\* Every generate_content call so far raised, or the one response is one
\* neither parse strategy turns into a list
EveryAttemptFailed ==
    /\ api_key # "" /\ calls >= 1
    /\ resp # None => resp.json # "list" /\ resp.items = <<>>

\* C6: with the external source configured and every attempt raising or
\* answering what neither parse strategy turns into a list, the call makes
\* at most 3 attempts and ends unavailable without raising, and
\* process_resume_file falls back to the keyword scan: its profile is not
\* empty whenever the text holds a base keyword.
C6_FallbackWhenUnavailable ==
    /\ calls <= max_retries + 1
    /\ fpc = "raised" => HasRaised(extract_text(doc))
    /\ fpc = "build" /\ EveryAttemptFailed => skills_raw = None
    /\ fpc = "done" /\ EveryAttemptFailed =>
          /\ Set(skills_raw.list) = {Str(kw) : kw \in KeywordsIn(text)}
          /\ KeywordsIn(text) # {} => profile.all_skills # <<>>

\* Three attempts raised, and the profile came from the keyword scan
C6_ThreeFailuresThenScan ==
    /\ fpc = "done" /\ EveryAttemptFailed /\ calls = max_retries + 1
    /\ profile.all_skills # <<>>

\* C7: every profile process_resume_file returns is well-formed: all_skills
\* has no duplicate and no empty string and is in first-seen order of the
\* candidates; categories has exactly the six keys; every skill stands once,
\* in the list categorize_skill names, in the order of all_skills.
C7_WellFormedProfile ==
    fpc = "done" =>
        LET F == profile.all_skills
            raw == skills_raw.list
            Full(x) == SecondPass(normalize_token(x.str))
            kept == {i \in 1..Len(raw) :
                        IsStr(raw[i]) /\ normalize_token(raw[i].str) # ""}
            First(s) == Min({i \in kept : Full(raw[i]) = s})
        IN  /\ \A i, j \in 1..Len(F) : i # j => F[i] # F[j]
            /\ \A i \in 1..Len(F) : F[i] # ""
            /\ Set(F) = {Full(raw[i]) : i \in kept}
            /\ \A i, j \in 1..Len(F) : i < j => First(F[i]) < First(F[j])
            /\ DOMAIN profile.categories = CATEGORIES
            /\ \A c \in CATEGORIES :
                  LET InC(x) == categorize_skill(x) = c
                  IN  profile.categories[c] = SelectSeq(F, InC)

\* A profile built from candidates that repeat a skill under two spellings
C7_VariantsMerged ==
    /\ fpc = "done"
    /\ Len(skills_raw.list) > Len(profile.all_skills)
    /\ Len(profile.all_skills) >= 1
    /\ \E i, j \in 1..Len(skills_raw.list) :
          /\ i < j
          /\ IsStr(skills_raw.list[i]) /\ IsStr(skills_raw.list[j])
          /\ skills_raw.list[i] # skills_raw.list[j]
          /\ normalize_token(skills_raw.list[i].str) = profile.all_skills[1]
          /\ normalize_token(skills_raw.list[j].str) = profile.all_skills[1]

\* The profile process_resume_file would return with normalize_token and
\* one dedupe only
FirstPassOnly(candidates) ==
    LET normalized == dedupe_preserve_order(NormalizeAll(candidates))
    IN  [all_skills |-> normalized, categories |-> categorize_list(normalized)]

\* C11: the second normalization pass of process_resume_file is a no-op:
\* it maps every token normalize_token returned to itself, so the profile
\* is the one normalize_token and one dedupe alone would give.
C11_SecondPassNoOp ==
    fpc = "done" =>
        /\ \A t \in Set(NormalizeAll(skills_raw.list)) : SecondPass(t) = t
        /\ profile = FirstPassOnly(skills_raw.list)

\* What the second pass does to the one candidate "node js"
C11_SecondPassRewrites ==
    fpc = "done" /\ skills_raw = List(<<Str("node js")>>) =>
        /\ NormalizeAll(skills_raw.list) = <<"node js">>
        /\ profile.all_skills = <<"node.js">>

-----------------------------------------------------------------------------
(* Claims about the script run, under Spec *)

\* The rows that show a profile, not an error
ProfileRows == {i \in 1..Len(rows) : "error" \notin DOMAIN rows[i]}

\* The candidate's skills behind row i: rows follow results entry by entry
CandidateOf(i) == Set(results[i].out.all_skills)

\* C3: for every reference set R (jd_skills, empty when the JD has no skill
\* or its processing failed) and candidate set C, matched is a subset of R
\* and of C, missing equals R minus C, and matched and missing share nothing.
C3_MatchBounds ==
    \A i \in ProfileRows :
        /\ Set(rows[i].matched) \subseteq jd_skills
        /\ Set(rows[i].matched) \subseteq CandidateOf(i)
        /\ Set(rows[i].missing) = jd_skills \ CandidateOf(i)
        /\ Set(rows[i].matched) \cap Set(rows[i].missing) = {}

\* C3 as amended: matched is a subset of C, missing equals R minus C and the
\* two share nothing, for every R; matched is a subset of R when R is not
\* empty, and is the whole of C when R is empty.
C3_MatchBoundsAmended ==
    \A i \in ProfileRows :
        /\ Set(rows[i].matched) \subseteq CandidateOf(i)
        /\ Set(rows[i].missing) = jd_skills \ CandidateOf(i)
        /\ Set(rows[i].matched) \cap Set(rows[i].missing) = {}
        /\ jd_skills # {} => Set(rows[i].matched) \subseteq jd_skills
        /\ jd_skills = {} => Set(rows[i].matched) = CandidateOf(i)

\* A row of a run with no JD skill, where matched lists skills outside R
C3_EmptyReferenceMatched ==
    \E i \in ProfileRows : jd_skills = {} /\ rows[i].matched # <<>>

\* seq ascends strictly, as Python compares strings
Ascending(seq) ==
    \A i, j \in 1..Len(seq) : i < j => StrLess(seq[i], seq[j])

\* cats is arr sorted into the six categories by categorize_skill
Categorized(cats, arr) ==
    /\ DOMAIN cats = CATEGORIES
    /\ \A c \in CATEGORIES :
          LET InC(x) == categorize_skill(x) = c
          IN  cats[c] = SelectSeq(arr, InC)

\* C4: with no JD skill, missing is [] and matched is the candidate's skills
\* in ascending order; with JD skills, matched and missing each ascend and
\* are re-categorized by categorize_skill into the six-key mapping.
C4_EmptyReferenceAndOrder ==
    \A i \in ProfileRows :
        /\ jd_skills = {} =>
              /\ rows[i].missing = <<>>
              /\ Set(rows[i].matched) = CandidateOf(i)
              /\ Len(rows[i].matched) = Cardinality(CandidateOf(i))
              /\ Ascending(rows[i].matched)
        /\ jd_skills # {} =>
              /\ Ascending(rows[i].matched)
              /\ Ascending(rows[i].missing)
              /\ Categorized(rows[i].matched_cat, rows[i].matched)
              /\ Categorized(rows[i].missing_cat, rows[i].missing)

\* A row of a run whose JD gave no skill, for a candidate with several
C4_EmptyReferenceRow ==
    \E i \in ProfileRows :
        jd_skills = {} /\ jd_out # None /\ Len(rows[i].matched) >= 2

\* The processing loop is over
ResumesProcessed == "results" \in bound /\ pc \in {"display", "rows", "end"}

\* What results holds under `name`
Lookup(name) == {results[i].out : i \in {j \in 1..Len(results) : results[j].name = name}}

\* What processing f gives on its own
Alone(f) == process_resume_file(f, call_gemini_for_skills(f, api_key))

\* C10: a resume whose extraction or processing raises gets an entry that
\* records the error, every other resume of the batch gets its own profile,
\* the one it would have without the failing resume, and a JD whose
\* processing fails does not keep the resumes from being processed.
C10_FailuresIsolated ==
    ResumesProcessed =>
        \A i \in 1..Len(resume_files) :
            IF HasRaised(Alone(resume_files[i]))
            THEN \E out \in Lookup(resume_files[i].name) : "error" \in DOMAIN out
            ELSE Lookup(resume_files[i].name) = {Alone(resume_files[i])}

\* C10 for batches whose file names differ from one another
C10_IsolatedUnderDistinctNames ==
    (ResumesProcessed /\ \A i, j \in 1..Len(resume_files) :
                             i # j => resume_files[i].name # resume_files[j].name) =>
        \A i \in 1..Len(resume_files) :
            IF HasRaised(Alone(resume_files[i]))
            THEN \E out \in Lookup(resume_files[i].name) : "error" \in DOMAIN out
            ELSE Lookup(resume_files[i].name) = {Alone(resume_files[i])}

\* C12: on every run the rendering of the rows comes only after a Start
\* press with a JD and a resume uploaded has assigned results, jd_skills and
\* jd_out; in no run does the rendering loop read an unassigned name.
C12_RenderingReadsAssigned ==
    /\ pc # "NameError"
    /\ pc \in {"rows", "end"} =>
          /\ start /\ jd_file # NoFile /\ resume_files # <<>>
          /\ {"results", "jd_skills", "jd_out"} \subseteq bound

\* The rows are rendered only from assigned names; the loop's header is
\* what fails in the runs that assigned none
C12_RowsOnlyAfterProcessing ==
    /\ pc = "rows" \/ rows # <<>> =>
          /\ start /\ jd_file # NoFile /\ resume_files # <<>>
          /\ {"results", "jd_skills", "jd_out"} \subseteq bound
    /\ pc = "NameError" => ~(start /\ jd_file # NoFile /\ resume_files # <<>>)

=============================================================================
